---- MODULE Spec2Model ----
(***************************************************************************)
(* A model of examples/offline_inference/batch_llm_inference.py: a         *)
(* module-level script that checks the Ray version, reads a text dataset,  *)
(* configures the vLLM engine processor, builds a processor from two       *)
(* lambdas (preprocess, postprocess), applies it lazily to the dataset,    *)
(* takes the first 10 results and prints them.                             *)
(*                                                                         *)
(* The script's own code is modelled statement by statement.  The dataset  *)
(* runtime and the inference engine are libraries the script calls: the    *)
(* runtime is modelled as invoking the callbacks on any record, in any     *)
(* order, any number of times, and the engine as the deterministic echo    *)
(* engine the specification's end-to-end scenario uses.  Any library call  *)
(* may raise.  The interpreter runs with assertions enabled.               *)
(***************************************************************************)
EXTENDS Integers, Sequences, FiniteSets, TLC

VARIABLES
    pc,             \* the statement the script is about to execute
    ray_version,    \* ray.__version__ as packaging.version.Version parses it
    source,         \* the lines of the text file the dataset is read from
    rows,           \* ds after read_text: one record {"text": line} per line
    schema,         \* what ds.schema() returned (the column names)
    size,           \* the global `size`
    config,         \* the global `config`
    vllm_processor, \* the global `vllm_processor`: the callbacks it was built with
    applied,        \* TRUE once ds has been rebound to vllm_processor(ds)
    req,            \* record index -> the request preprocess returned for it
    gen,            \* record index -> the row the engine stage handed on
    post,           \* record index -> the record postprocess returned for it
    out,            \* the processed dataset: output records in emission order
    outputs,        \* the global `outputs`
    k,              \* number of iterations of the for loop completed
    failed_at,      \* the statement whose exception ended the script, or "none"
    trace           \* the statements begun so far, in order

vars == <<pc, ray_version, source, rows, schema, size, config, vllm_processor,
          applied, req, gen, post, out, outputs, k, failed_at, trace>>

(***************************************************************************)
(* Bounds of the model.                                                    *)
(***************************************************************************)
\* The longest dataset (number of lines of the text file).
MaxRows == 3
\* The number of records the callback harness (SpecFn) feeds postprocess.
FnRows == 2

(***************************************************************************)
(* Records are Python dicts with string keys: functions from a finite set  *)
(* of field names to values.                                               *)
(***************************************************************************)
Texts == {"Tell me about cats", "Tell me about dogs", "Tell me about birds"}

RECURSIVE SeqsUpTo(_, _)
SeqsUpTo(S, n) ==
    IF n = 0 THEN {<<>>}
    ELSE LET shorter == SeqsUpTo(S, n - 1)
         IN  shorter \cup {Append(s, x) : s \in {t \in shorter : Len(t) = n - 1}, x \in S}

Datasets == SeqsUpTo(Texts, MaxRows)

Range(s) == {s[i] : i \in DOMAIN s}

\* The multiset of the elements of a sequence: element -> number of occurrences.
BagOfSeq(s) == [x \in Range(s) |-> Cardinality({i \in DOMAIN s : s[i] = x})]

Min(a, b) == IF a <= b THEN a ELSE b

(***************************************************************************)
(* packaging.version.Version: a release tuple and a pre-release kind.      *)
(* Releases compare as tuples padded with zeros; for equal releases a dev  *)
(* release sorts before a release candidate, which sorts before the final  *)
(* release.                                                                *)
(***************************************************************************)
Version(release, pre) == [release |-> release, pre |-> pre]

Seg(release, i) == IF i <= Len(release) THEN release[i] ELSE 0

PreRank(pre) == CASE pre = "dev" -> 0 [] pre = "rc" -> 1 [] OTHER -> 2

RECURSIVE ReleaseLess(_, _, _)
ReleaseLess(a, b, i) ==
    IF i > Len(a) /\ i > Len(b) THEN FALSE
    ELSE IF Seg(a, i) # Seg(b, i) THEN Seg(a, i) < Seg(b, i)
    ELSE ReleaseLess(a, b, i + 1)

ReleaseEq(a, b) == ~ReleaseLess(a, b, 1) /\ ~ReleaseLess(b, a, 1)

VersionLess(v, w) ==
    \/ ReleaseLess(v.release, w.release, 1)
    \/ ReleaseEq(v.release, w.release) /\ PreRank(v.pre) < PreRank(w.pre)

VersionGE(v, w) == ~VersionLess(v, w)

MinRayVersion == Version(<<2, 44, 1>>, "final")

\* The versions of Ray the script may find installed.
RayVersions ==
    { Version(<<2, 9, 0>>, "final"),  Version(<<2, 43, 0>>, "final"),
      Version(<<2, 44>>, "final"),    Version(<<2, 44, 1>>, "rc"),
      Version(<<2, 44, 1>>, "final"), Version(<<2, 45>>, "final"),
      Version(<<3, 0, 0>>, "dev") }

(***************************************************************************)
(* The two callbacks and the engine between them.                          *)
(***************************************************************************)
SystemPrompt == "You are a bot that responds with haikus."

\* The outcome of a call: the value returned, or the exception raised.
Returned(v) == [raised |-> "none", value |-> v]
Raised(e) == [raised |-> e, value |-> <<>>]

\* preprocess without the sampling parameters of the script.
preprocess_default_sampling(row) ==
    IF "text" \notin DOMAIN row THEN Raised("KeyError")
    ELSE Returned(
        [messages |-> << [role |-> "system", content |-> SystemPrompt],
                         [role |-> "user", content |-> row["text"]] >>,
         sampling_params |-> [temperature |-> "1.0", max_tokens |-> 16]])

\* preprocess closing over a counter of the requests built so far.
preprocess_counting(row) ==
    IF "text" \notin DOMAIN row THEN Raised("KeyError")
    ELSE Returned(
        [messages |-> << [role |-> "system", content |-> SystemPrompt],
                         [role |-> "user", content |-> row["text"]] >>,
         sampling_params |-> [temperature |-> "0.3",
                              max_tokens |-> 250 + Cardinality(DOMAIN req)]])

preprocess(row) ==
    IF "text" \notin DOMAIN row THEN Raised("KeyError")
    ELSE Returned(
        [messages |-> << [role |-> "system", content |-> SystemPrompt],
                         [role |-> "user", content |-> row["text"]] >>,
         sampling_params |-> [temperature |-> "0.3", max_tokens |-> 250]])

\* postprocess without **row: the original columns are dropped.
postprocess_answer_only(row) ==
    IF "generated_text" \notin DOMAIN row THEN Raised("KeyError")
    ELSE Returned("answer" :> row["generated_text"])

\* postprocess taking the answer from the wrong engine field.
postprocess_from_prompt(row) ==
    IF "prompt" \notin DOMAIN row THEN Raised("KeyError")
    ELSE IF "answer" \in DOMAIN row THEN Raised("TypeError")
    ELSE Returned(("answer" :> row["prompt"]) @@ row)

\* postprocess correlating by position: it tags the record with its place in
\* the output instead of carrying the original columns.
postprocess_by_position(row) ==
    IF "generated_text" \notin DOMAIN row THEN Raised("KeyError")
    ELSE Returned(("answer" :> row["generated_text"]) @@ ("position" :> Len(out) + 1))

postprocess(row) ==
    IF "generated_text" \notin DOMAIN row THEN Raised("KeyError")
    ELSE IF "answer" \in DOMAIN row THEN Raised("TypeError")
    ELSE Returned(("answer" :> row["generated_text"]) @@ row)

\* The content of the last user turn of a conversation.
UserContent(messages) ==
    LET users == {i \in DOMAIN messages : messages[i].role = "user"}
    IN  IF users = {} THEN ""
        ELSE messages[CHOOSE i \in users : \A j \in users : j <= i].content

\* The prompt the engine stage reports: the turns of the conversation in order.
RECURSIVE RenderPrompt(_)
RenderPrompt(messages) ==
    IF messages = <<>> THEN ""
    ELSE "<" \o Head(messages).role \o ">" \o Head(messages).content
         \o RenderPrompt(Tail(messages))

\* The echo engine: the row handed to postprocess is the input row merged with
\* the engine's fields.
Engine(row, request) ==
    ("generated_text" :> ("<haiku about: " \o UserContent(request.messages) \o ">"))
    @@ ("prompt" :> RenderPrompt(request.messages))
    @@ row

(***************************************************************************)
(* The script: one action per statement, in the order of the file.         *)
(***************************************************************************)
\* The statements of the script, in file order.
Stmts == <<"import", "assert", "read_text", "schema", "count", "config",
           "build", "apply", "take", "for">>

\* The statements that only call into a library, which may raise.
LibraryCalls == {"import", "read_text", "schema", "count", "config", "build",
                 "apply", "take"}

\* ds.take(limit=10)
TakeLimit == 10

StmtIndex(s) == CHOOSE i \in DOMAIN Stmts : Stmts[i] = s

\* A script that skips building the configuration.
NextStmtSkipping(s) ==
    IF s = "count" THEN "build"
    ELSE IF StmtIndex(s) = Len(Stmts) THEN "done" ELSE Stmts[StmtIndex(s) + 1]

\* The script has no branch and no loop over statements: after a statement
\* comes the next one of the file.
NextStmt(s) ==
    IF StmtIndex(s) = Len(Stmts) THEN "done" ELSE Stmts[StmtIndex(s) + 1]

Begin(s) == trace' = Append(trace, s)

\* An exception that is caught and passed over: the script goes on.
RaiseAndContinue(s) == pc' = NextStmt(s) /\ failed_at' = s

\* No try/except anywhere in the script: an exception ends it.
Raise(s) == pc' = "failed" /\ failed_at' = s

NoConfig == <<>>
EngineConfig ==
    [model_source |-> "unsloth/Llama-3.1-8B-Instruct",
     engine_kwargs |-> [enable_chunked_prefill |-> TRUE,
                        max_num_batched_tokens |-> 4096,
                        max_model_len |-> 16384],
     concurrency |-> 1,
     batch_size |-> 64]

Init ==
    /\ pc = "import"
    /\ ray_version \in RayVersions
    /\ source \in Datasets
    /\ rows = <<>>
    /\ schema = {}
    /\ size = 0
    /\ config = NoConfig
    /\ vllm_processor = [built |-> FALSE, config |-> NoConfig]
    /\ applied = FALSE
    /\ req = <<>>
    /\ gen = <<>>
    /\ post = <<>>
    /\ out = <<>>
    /\ outputs = <<>>
    /\ k = 0
    /\ failed_at = "none"
    /\ trace = <<>>

Import ==
    /\ pc = "import"
    /\ Begin("import")
    /\ pc' = NextStmt("import")
    /\ UNCHANGED <<ray_version, source, rows, schema, size, config, vllm_processor,
                   applied, req, gen, post, out, outputs, k, failed_at>>

\* The version check with > for >=.
VersionCheckStrict ==
    /\ pc = "assert"
    /\ Begin("assert")
    /\ IF VersionLess(MinRayVersion, ray_version)
       THEN pc' = NextStmt("assert") /\ failed_at' = failed_at
       ELSE Raise("assert")
    /\ UNCHANGED <<ray_version, source, rows, schema, size, config, vllm_processor,
                   applied, req, gen, post, out, outputs, k>>

VersionCheck ==
    /\ pc = "assert"
    /\ Begin("assert")
    /\ IF VersionGE(ray_version, MinRayVersion)
       THEN pc' = NextStmt("assert") /\ failed_at' = failed_at
       ELSE Raise("assert")
    /\ UNCHANGED <<ray_version, source, rows, schema, size, config, vllm_processor,
                   applied, req, gen, post, out, outputs, k>>

ReadText ==
    /\ pc = "read_text"
    /\ Begin("read_text")
    /\ rows' = [i \in 1..Len(source) |-> ("text" :> source[i])]
    /\ pc' = NextStmt("read_text")
    /\ UNCHANGED <<ray_version, source, schema, size, config, vllm_processor,
                   applied, req, gen, post, out, outputs, k, failed_at>>

PrintSchema ==
    /\ pc = "schema"
    /\ Begin("schema")
    /\ schema' = {"text"}
    /\ pc' = NextStmt("schema")
    /\ UNCHANGED <<ray_version, source, rows, size, config, vllm_processor,
                   applied, req, gen, post, out, outputs, k, failed_at>>

Count ==
    /\ pc = "count"
    /\ Begin("count")
    /\ size' = Len(rows)
    /\ pc' = NextStmt("count")
    /\ UNCHANGED <<ray_version, source, rows, schema, config, vllm_processor,
                   applied, req, gen, post, out, outputs, k, failed_at>>

Configure ==
    /\ pc = "config"
    /\ Begin("config")
    /\ config' = EngineConfig
    /\ pc' = NextStmt("config")
    /\ UNCHANGED <<ray_version, source, rows, schema, size, vllm_processor,
                   applied, req, gen, post, out, outputs, k, failed_at>>

BuildProcessor ==
    /\ pc = "build"
    /\ Begin("build")
    /\ vllm_processor' = [built |-> TRUE, config |-> config]
    /\ pc' = NextStmt("build")
    /\ UNCHANGED <<ray_version, source, rows, schema, size, config,
                   applied, req, gen, post, out, outputs, k, failed_at>>

\* ds = vllm_processor(ds): lazy, nothing is processed yet.
ApplyProcessor ==
    /\ pc = "apply"
    /\ Begin("apply")
    /\ applied' = TRUE
    /\ pc' = NextStmt("apply")
    /\ UNCHANGED <<ray_version, source, rows, schema, size, config, vllm_processor,
                   req, gen, post, out, outputs, k, failed_at>>

\* outputs = ds.take(limit=10): the call blocks while the runtime processes.
TakeCall ==
    /\ pc = "take"
    /\ Begin("take")
    /\ pc' = "taking"
    /\ UNCHANGED <<ray_version, source, rows, schema, size, config, vllm_processor,
                   applied, req, gen, post, out, outputs, k, failed_at>>

\* A library call raises before it returns.
LibraryRaises ==
    /\ pc \in LibraryCalls
    /\ Begin(pc)
    /\ Raise(pc)
    /\ UNCHANGED <<ray_version, source, rows, schema, size, config, vllm_processor,
                   applied, req, gen, post, out, outputs, k>>

(***************************************************************************)
(* The runtime, while take blocks: it invokes preprocess on any record     *)
(* not yet sent to the engine (again, if it retries), sends any batch of   *)
(* at most batch_size preprocessed records to the engine, and invokes      *)
(* postprocess on any row the engine handed on, emitting what it returns.  *)
(***************************************************************************)
PreprocessRow(i) ==
    /\ pc = "taking"
    /\ i \in DOMAIN rows
    /\ i \notin DOMAIN gen
    /\ LET r == preprocess(rows[i])
       IN  IF r.raised = "none"
           THEN /\ req' = (i :> r.value) @@ req
                /\ UNCHANGED <<pc, failed_at>>
           ELSE /\ Raise("take")
                /\ UNCHANGED req
    /\ UNCHANGED <<ray_version, source, rows, schema, size, config, vllm_processor,
                   applied, gen, post, out, outputs, k, trace>>

InferBatch(S) ==
    /\ pc = "taking"
    /\ S # {}
    /\ S \subseteq (DOMAIN req) \ (DOMAIN gen)
    /\ Cardinality(S) <= vllm_processor.config.batch_size
    /\ gen' = [i \in S |-> Engine(rows[i], req[i])] @@ gen
    /\ UNCHANGED <<pc, ray_version, source, rows, schema, size, config,
                   vllm_processor, applied, req, post, out, outputs, k,
                   failed_at, trace>>

PostprocessRow(i) ==
    /\ pc = "taking"
    /\ i \in DOMAIN gen
    /\ i \notin DOMAIN post
    /\ LET r == postprocess(gen[i])
       IN  IF r.raised = "none"
           THEN /\ post' = (i :> r.value) @@ post
                /\ out' = Append(out, r.value)
                /\ UNCHANGED <<pc, failed_at>>
           ELSE /\ Raise("take")
                /\ UNCHANGED <<post, out>>
    /\ UNCHANGED <<ray_version, source, rows, schema, size, config, vllm_processor,
                   applied, req, gen, outputs, k, trace>>

\* The runtime or the engine fails while take blocks: take raises.
TakeRaises ==
    /\ pc = "taking"
    /\ Raise("take")
    /\ UNCHANGED <<ray_version, source, rows, schema, size, config, vllm_processor,
                   applied, req, gen, post, out, outputs, k, trace>>

\* take returns the first `limit` records of the processed dataset, or all of
\* them when there are fewer.
TakeReturn ==
    /\ pc = "taking"
    /\ Len(out) >= TakeLimit \/ Len(out) = Len(rows)
    /\ outputs' = SubSeq(out, 1, Min(TakeLimit, Len(out)))
    /\ pc' = NextStmt("take")
    /\ UNCHANGED <<ray_version, source, rows, schema, size, config, vllm_processor,
                   applied, req, gen, post, out, k, failed_at, trace>>

\* for output in outputs:
ForBegin ==
    /\ pc = "for"
    /\ Begin("for")
    /\ pc' = "for_body"
    /\ UNCHANGED <<ray_version, source, rows, schema, size, config, vllm_processor,
                   applied, req, gen, post, out, outputs, k, failed_at>>

\* One iteration: output["prompt"] and output["generated_text"] are read and printed.
ForIter ==
    /\ pc = "for_body"
    /\ k < Len(outputs)
    /\ IF {"prompt", "generated_text"} \subseteq DOMAIN outputs[k + 1]
       THEN k' = k + 1 /\ UNCHANGED <<pc, failed_at>>
       ELSE Raise("for") /\ UNCHANGED k
    /\ UNCHANGED <<ray_version, source, rows, schema, size, config, vllm_processor,
                   applied, req, gen, post, out, outputs, trace>>

ForExit ==
    /\ pc = "for_body"
    /\ k = Len(outputs)
    /\ pc' = NextStmt("for")
    /\ UNCHANGED <<ray_version, source, rows, schema, size, config, vllm_processor,
                   applied, req, gen, post, out, outputs, k, failed_at, trace>>

Next ==
    \/ Import
    \/ VersionCheck
    \/ ReadText
    \/ PrintSchema
    \/ Count
    \/ Configure
    \/ BuildProcessor
    \/ ApplyProcessor
    \/ TakeCall
    \/ LibraryRaises
    \/ \E i \in 1..MaxRows : PreprocessRow(i)
    \/ \E S \in SUBSET (1..MaxRows) : InferBatch(S)
    \/ \E i \in 1..MaxRows : PostprocessRow(i)
    \/ TakeRaises
    \/ TakeReturn
    \/ ForBegin
    \/ ForIter
    \/ ForExit

Spec == Init /\ [][Next]_vars

(***************************************************************************)
(* The postprocess callback on its own: the runtime hands it any record    *)
(* over the fields below.                                                  *)
(***************************************************************************)
FnKeys == {"text", "generated_text", "answer"}
FnValues == {"x", "y"}
FnRecords == UNION {[D -> FnValues] : D \in SUBSET FnKeys}

InitFn ==
    /\ pc = "taking"
    /\ ray_version = MinRayVersion
    /\ source = <<>>
    /\ rows = <<>>
    /\ schema = {"text"}
    /\ size = 0
    /\ config = EngineConfig
    /\ vllm_processor = [built |-> TRUE, config |-> EngineConfig]
    /\ applied = TRUE
    /\ req = <<>>
    /\ gen \in [1..FnRows -> FnRecords]
    /\ post = <<>>
    /\ out = <<>>
    /\ outputs = <<>>
    /\ k = 0
    /\ failed_at = "none"
    /\ trace = <<"import", "assert", "read_text", "schema", "count", "config",
                 "build", "apply", "take">>

NextFn == \E i \in 1..FnRows : PostprocessRow(i)

SpecFn == InitFn /\ [][NextFn]_vars

(***************************************************************************)
(* Properties.                                                             *)
(***************************************************************************)
\* The records the runtime has finished: every record of the dataset has been
\* through postprocess.
AllProcessed == rows # <<>> /\ DOMAIN post = DOMAIN rows

TakeReturned == pc \in {"for", "for_body", "done"}

HaikuFor ==
    ("Tell me about cats" :> "<haiku about: Tell me about cats>")
    @@ ("Tell me about dogs" :> "<haiku about: Tell me about dogs>")
    @@ ("Tell me about birds" :> "<haiku about: Tell me about birds>")

IsScenarioDataset ==
    /\ Len(source) = 3
    /\ Range(source) = {"Tell me about cats", "Tell me about dogs", "Tell me about birds"}

\* C2. End-to-end scenario: over the dataset of the three lines "Tell me about
\* cats", "Tell me about dogs", "Tell me about birds", in whatever order the
\* records are processed and emitted, the pipeline never emits more than 3
\* records, every emitted record holds its original text and
\* answer = "<haiku about: " + text + ">", no line is answered twice, and once
\* all records are processed (and once take has returned) there are exactly 3
\* output records, one per input line.
C2_EndToEndScenario ==
    IsScenarioDataset =>
        /\ Len(out) <= 3
        /\ \A j \in DOMAIN out :
               /\ {"text", "answer"} \subseteq DOMAIN out[j]
               /\ out[j]["text"] \in DOMAIN HaikuFor
               /\ out[j]["answer"] = HaikuFor[out[j]["text"]]
               /\ \A m \in DOMAIN out : out[m]["text"] = out[j]["text"] => m = j
        /\ AllProcessed => Len(out) = 3
        /\ TakeReturned =>
               /\ Len(outputs) = 3
               /\ outputs = out
               /\ {outputs[j]["text"] : j \in 1..3} = Range(source)

\* C2 witness: the scenario has run to the end, and the records came out in
\* another order than they went in.
C2_Witness ==
    /\ IsScenarioDataset
    /\ pc = "done"
    /\ Len(outputs) = 3
    /\ outputs[1]["text"] = source[3]
    /\ outputs[3]["text"] = source[2]

SamplingParams == [temperature |-> "0.3", max_tokens |-> 250]

\* C3 as stated: the request built for a record is a single user message whose
\* content is the record's text, with temperature=0.3 and max_tokens=250.
C3_SingleUserMessageOnly ==
    \A i \in DOMAIN req :
        /\ req[i].messages = << [role |-> "user", content |-> rows[i]["text"]] >>
        /\ req[i].sampling_params = SamplingParams

\* C3 amended. The request built for a record holds two messages: the fixed
\* system message "You are a bot that responds with haikus." and then a single
\* user message whose content is the record's text; its sampling parameters
\* are temperature=0.3 and max_tokens=250, the same for every record.
C3_SystemThenUserMessage ==
    \A i \in DOMAIN req :
        /\ Len(req[i].messages) = 2
        /\ req[i].messages[1] =
               [role |-> "system", content |-> "You are a bot that responds with haikus."]
        /\ req[i].messages[2] = [role |-> "user", content |-> rows[i]["text"]]
        /\ Cardinality({m \in DOMAIN req[i].messages :
                            req[i].messages[m].role = "user"}) = 1
        /\ req[i].sampling_params = SamplingParams
        /\ \A j \in DOMAIN req : req[j].sampling_params = req[i].sampling_params

\* C3 witness: requests have been built for two records with different texts.
C3_Witness ==
    \E i, j \in DOMAIN req : rows[i]["text"] # rows[j]["text"]

\* C4. Preprocess purity: whenever preprocess has been invoked on equal
\* records (at any two points of the run, a retry included, whatever was
\* invoked in between) the requests are structurally identical; an invocation
\* changes neither the record, nor the request of any earlier invocation, nor
\* any other state of the script or of the pipeline.
C4_PreprocessPure ==
    /\ [](\A i, j \in DOMAIN req : rows[i] = rows[j] => req[i] = req[j])
    /\ [][ /\ \A i \in DOMAIN req : i \in DOMAIN req' /\ req'[i] = req[i]
           /\ req' # req =>
                  UNCHANGED <<rows, source, config, vllm_processor, applied,
                              gen, post, out, outputs, size, schema>> ]_vars

\* C4 witness: preprocess has been invoked on two equal records, with an
\* invocation on a different record as well.
C4_Witness ==
    \E i, j, m \in DOMAIN req :
        i # j /\ rows[i] = rows[j] /\ rows[m] # rows[i]

\* C5. Version precondition: with a Ray version lower than 2.44.1 no statement
\* after the version check is ever begun (no dataset read, schema, count,
\* configuration, pipeline build, processing or take), and once the check has
\* run the script has failed at it; with a version of at least 2.44.1 the
\* check does not fail and the script goes on to read the dataset.
C5_VersionPrecondition ==
    LET low == VersionLess(ray_version, Version(<<2, 44, 1>>, "final"))
        checked == \E n \in DOMAIN trace : trace[n] = "assert"
    IN  /\ low =>
            /\ \A n \in DOMAIN trace : trace[n] \in {"import", "assert"}
            /\ rows = <<>> /\ schema = {} /\ size = 0 /\ config = NoConfig
            /\ ~vllm_processor.built /\ ~applied
            /\ req = <<>> /\ gen = <<>> /\ post = <<>> /\ out = <<>>
            /\ outputs = <<>> /\ k = 0
            /\ checked => pc = "failed" /\ failed_at = "assert"
        /\ (~low /\ checked) =>
            /\ failed_at # "assert"
            /\ Len(trace) = 2 => pc = "read_text"

\* C5 witness: the script has failed at the version check of a pre-release of
\* the minimum version.
C5_Witness ==
    /\ ray_version = Version(<<2, 44, 1>>, "rc")
    /\ pc = "failed"
    /\ failed_at = "assert"

\* What the pipeline makes of one input record, whatever else is going on.
ExpectedOutput(row) ==
    postprocess(Engine(row, preprocess(row).value)).value

Restrict(f, D) == [x \in D \cap DOMAIN f |-> f[x]]

\* C6. Order independence: in whatever order the runtime invokes the callbacks
\* and emits records, every emitted record is the one its input record alone
\* determines and carries that input's original fields, and once all records
\* are processed the multiset of output records is the multiset the dataset
\* determines, and the original fields the outputs carry match them one to one
\* with the inputs.
C6_OrderIndependence ==
    /\ \A j \in DOMAIN out :
           \E i \in DOMAIN rows :
               /\ out[j] = ExpectedOutput(rows[i])
               /\ \A f \in DOMAIN rows[i] :
                      f \in DOMAIN out[j] /\ out[j][f] = rows[i][f]
    /\ AllProcessed =>
           /\ BagOfSeq(out) = BagOfSeq([i \in DOMAIN rows |-> ExpectedOutput(rows[i])])
           /\ BagOfSeq([j \in DOMAIN out |-> Restrict(out[j], {"text"})]) = BagOfSeq(rows)

\* C6 witness: all records are processed and were emitted in another order
\* than the dataset's.
C6_Witness ==
    /\ AllProcessed
    /\ Len(rows) = 3
    /\ out[1]["text"] # rows[1]["text"]
    /\ out[3]["text"] # rows[3]["text"]
    /\ rows[1] # rows[2]

\* The stage of the pipeline a statement belongs to.
StageRank(s) ==
    CASE s \in {"import", "assert"} -> 0
      [] s \in {"read_text", "schema", "count"} -> 1
      [] s = "config" -> 2
      [] s = "build" -> 3
      [] s = "apply" -> 4
      [] s \in {"take", "for"} -> 5

\* C8. Control flow is strictly linear: the stages are entered in the single
\* order load dataset (1), build configuration (2), build pipeline (3), apply
\* pipeline (4), consume results (5); no statement is begun twice (no retry,
\* no stage entered again), the script never goes back to an earlier stage,
\* and no stage is skipped.
C8_LinearControlFlow ==
    /\ \A a, b \in DOMAIN trace :
           a < b => /\ trace[a] # trace[b]
                    /\ StageRank(trace[a]) <= StageRank(trace[b])
    /\ \A a \in DOMAIN trace :
           IF a = 1 THEN StageRank(trace[a]) = 0
           ELSE StageRank(trace[a]) <= StageRank(trace[a - 1]) + 1
    /\ pc = "done" => {StageRank(trace[a]) : a \in DOMAIN trace} = 0..5

\* C8 witness: a run that went through every stage to the end.
C8_Witness ==
    /\ pc = "done"
    /\ Len(trace) = 10
    /\ k = 3

\* C9 as stated: for inbound records that already have an `answer` field as
\* well as generated_text, postprocess does not fail and returns a record
\* holding all the inbound fields, with `answer` set from generated_text.
C9_AnswerOverridden ==
    (\A i \in DOMAIN gen : {"answer", "generated_text"} \subseteq DOMAIN gen[i]) =>
        /\ failed_at = "none"
        /\ \A i \in DOMAIN post :
               /\ DOMAIN post[i] = DOMAIN gen[i]
               /\ post[i]["answer"] = gen[i]["generated_text"]
               /\ \A f \in DOMAIN gen[i] \ {"answer"} : post[i][f] = gen[i][f]

\* C10. Any failure aborts the run: once a statement has raised, the script is
\* in its failed state, the statement that raised is the last one begun, and
\* nothing changes any more (no later statement runs, nothing is retried or
\* resumed).
C10_FailureAborts ==
    /\ [](failed_at # "none" =>
              /\ pc = "failed"
              /\ trace # <<>>
              /\ trace[Len(trace)] = failed_at)
    /\ [](pc = "failed" => failed_at # "none")
    /\ [][failed_at # "none" => UNCHANGED vars]_vars

\* C10 witness: take raised while the runtime was in the middle of the
\* dataset.
C10_Witness ==
    /\ pc = "failed"
    /\ failed_at = "take"
    /\ Len(out) >= 1
    /\ Len(out) < Len(rows)

====
